---- MODULE Spec2Model ----
(***************************************************************************)
(* Model of stac_model/input.py: the schema of a machine-learning model    *)
(* input (InputStructure, ScalingObject, ResizeType, ModelBand,            *)
(* ModelInput), its construction-time validation and its serialization.    *)
(*                                                                         *)
(* Documents are JSON values, each a one-field record that tags its type:  *)
(*   [str |-> s]  [num |-> n]  [null |-> TRUE]  [obj |-> f]  [arr |-> q]   *)
(* where f maps the keys that are present to JSON values and q is a        *)
(* sequence of JSON values.  A key that is absent is not in DOMAIN f.      *)
(* Validated instances are records that carry their class (cls) and every  *)
(* declared field; a field that is None holds PyNone.                      *)
(***************************************************************************)
EXTENDS Integers, Sequences, FiniteSets, TLC

VARIABLES
    op,     \* the class under construction: "InputStructure", "ModelBand", ...
    doc,    \* the document last handed to the constructor, or last serialized
    res,    \* the outcome of the last construction: [ok, value, errors]
    prev,   \* the instance the current document was serialized from
    phase,  \* "idle" | "parsed" | "serialized"
    gen     \* number of serialize -> parse round trips done on this input

vars == <<op, doc, res, prev, phase, gen>>

(* ------------------------------ bounds -------------------------------- *)

MaxDims == 3
MaxBands == 2
MaxScaling == 2
MaxRoundTrips == 2

(* --------------------------- JSON values ------------------------------ *)

JStr(s) == [str |-> s]
JNum(n) == [num |-> n]
JNull == [null |-> TRUE]
JObj(f) == [obj |-> f]
JArr(q) == [arr |-> q]

IsStr(v) == DOMAIN v = {"str"}
IsNum(v) == DOMAIN v = {"num"}
IsNull(v) == DOMAIN v = {"null"}
IsObj(v) == DOMAIN v = {"obj"}
IsArr(v) == DOMAIN v = {"arr"}

\* Python's None, as a field value of an instance.
PyNone == JNull

\* A Python list, as a field value of an instance.
PyList(q) == [list |-> q]

\* The marker of a key that the document does not hold.
Absent == [absent |-> TRUE]
IsAbsent(v) == DOMAIN v = {"absent"}

\* d.get(key): the value under key of an object document, or Absent.
Get(d, key) == IF key \in DOMAIN d.obj THEN d.obj[key] ELSE Absent

Keys(d) == DOMAIN d.obj

\* The object holding exactly the listed keys of f whose value is kept.
Restrict(f, keys) == [k \in keys |-> f[k]]

\* All sequences over S of length lo..hi.
SeqsOf(S, lo, hi) == UNION {[1..n -> S] : n \in lo..hi}

(* ----------------------- validation outcomes -------------------------- *)

\* No instance: what the caller holds when construction raised.
NoObject == [none |-> TRUE]

Ok(v) == [ok |-> TRUE, value |-> v, errors |-> {}]
Fail(errs) == [ok |-> FALSE, value |-> NoObject, errors |-> errs]

\* An error set of a nested value, reported under the field that holds it.
Under(field, errs) == {<<field>> \o e : e \in errs}

\* FieldErrors stopping at the first field that failed.
FieldErrors_FirstOnly(fs) ==
    LET bad == {k \in DOMAIN fs : fs[k].errors # {}}
        k0 == CHOOSE k \in bad : TRUE
    IN  IF bad = {} THEN {} ELSE Under(k0, fs[k0].errors)

\* The errors of the fields of one model: fs maps field name to its outcome.
FieldErrors(fs) == UNION {Under(k, fs[k].errors) : k \in DOMAIN fs}

(* -------------------------- field validators -------------------------- *)

MinLength == 1

\* str: only a string is a string (no coercion from numbers).
ParseStr(v) ==
    IF IsStr(v) THEN Ok(v) ELSE Fail({<<>>})

\* Union[int, float]
ParseNumber(v) ==
    IF IsNum(v) THEN Ok(v) ELSE Fail({<<>>})

\* Any, required: whatever is present, null included.
ParseAny(v) ==
    IF IsAbsent(v) THEN Fail({<<>>}) ELSE Ok(v)

\* The items of an array document; none of anything else.
Items(v) == IF IsArr(v) THEN v.arr ELSE <<>>

\* List[T] = Field(min_length=n): an array of at least n valid items, where
\* rs holds the outcome of validating each item as a T.
ParseList(v, rs, minLen) ==
    IF ~IsArr(v) THEN Fail({<<>>})
    ELSE LET errs == UNION {rs[i].errors : i \in DOMAIN rs}
         IN  IF errs # {} THEN Fail(errs)
             ELSE IF Len(rs) < minLen THEN Fail({<<>>})
             ELSE Ok(PyList([i \in DOMAIN rs |-> rs[i].value]))

\* Optional[T] = None: an absent key or null is None; anything else has the
\* outcome r of validating it as a T.
ParseOptional(v, r) ==
    IF IsAbsent(v) \/ IsNull(v) THEN Ok(PyNone) ELSE r

\* The admissible tensor element types (declared in stac_model.base).
DataType == {"uint8", "int32", "float32"}

ParseDataType(v) ==
    IF IsStr(v) /\ v.str \in DataType THEN Ok(v) ELSE Fail({<<>>})

(* --------------------------- serialization --------------------------- *)

\* OmitIfNone with pre_processing_function annotated like its neighbours.
OmitIfNone_PreProcessingToo(c) ==
    CASE c = "ModelBand" -> {"format", "expression"}
      [] c = "ModelInput" -> {"scaling", "resize_type", "pre_processing_function"}
      [] OTHER -> {}

\* OmitIfNone with the annotation of ModelBand.expression left out.
OmitIfNone_ExpressionKept(c) ==
    CASE c = "ModelBand" -> {"format"}
      [] c = "ModelInput" -> {"scaling", "resize_type"}
      [] OTHER -> {}

\* The fields annotated OmitIfNone, per class.
OmitIfNone(c) ==
    CASE c = "ModelBand" -> {"format", "expression"}
      [] c = "ModelInput" -> {"scaling", "resize_type"}
      [] OTHER -> {}

\* MLMBaseModel's serializer: every field under its name, except an
\* OmitIfNone field whose value is None, which leaves no key.
SerializeModel(c, fields) ==
    JObj(Restrict(fields, {k \in DOMAIN fields :
                              ~(k \in OmitIfNone(c) /\ fields[k] = JNull)}))

(* --------------------------- InputStructure --------------------------- *)

\* validate_dimensions comparing with < where the code compares with !=.
validate_dimensions_OneSided(self) ==
    Len(self.shape.list) < Len(self.dim_order.list)

\* The after-validator of InputStructure: TRUE when it raises.
validate_dimensions(self) ==
    Len(self.shape.list) # Len(self.dim_order.list)

ParseShape(v) ==
    ParseList(v, [i \in DOMAIN Items(v) |-> ParseNumber(Items(v)[i])], MinLength)
ParseDimOrder(v) ==
    ParseList(v, [i \in DOMAIN Items(v) |-> ParseStr(Items(v)[i])], MinLength)

ParseInputStructure(d) ==
    IF ~IsObj(d) THEN Fail({<<>>})
    ELSE LET fs == [shape |-> ParseShape(Get(d, "shape")),
                    dim_order |-> ParseDimOrder(Get(d, "dim_order")),
                    data_type |-> ParseDataType(Get(d, "data_type"))]
             self == [cls |-> JStr("InputStructure"),
                      shape |-> fs.shape.value,
                      dim_order |-> fs.dim_order.value,
                      data_type |-> fs.data_type.value]
         IN  IF FieldErrors(fs) # {} THEN Fail(FieldErrors(fs))
             ELSE IF validate_dimensions(self)
                  THEN Fail({<<"validate_dimensions">>})
                  ELSE Ok(self)

SerializeInputStructure(x) ==
    SerializeModel("InputStructure",
                   [shape |-> JArr(x.shape.list),
                    dim_order |-> JArr(x.dim_order.list),
                    data_type |-> x.data_type])

(* ------------------------- ProcessingExpression ----------------------- *)

\* The generic processing expression of stac_model.base: a format and an
\* expression, both required.
ParseProcessingExpression(d) ==
    IF ~IsObj(d) THEN Fail({<<>>})
    ELSE LET fs == [format |-> ParseStr(Get(d, "format")),
                    expression |-> ParseAny(Get(d, "expression"))]
         IN  IF FieldErrors(fs) # {} THEN Fail(FieldErrors(fs))
             ELSE Ok([cls |-> JStr("ProcessingExpression"),
                      format |-> fs.format.value,
                      expression |-> fs.expression.value])

SerializeProcessingExpression(x) ==
    SerializeModel("ProcessingExpression",
                   [format |-> x.format, expression |-> x.expression])

(* ----------------------------- ScalingObject -------------------------- *)

\* The members of the ScalingObject union, in the order the union lists them.
ScalingVariants ==
    <<"ScalingMinMax", "ScalingZScore", "ScalingClip", "ScalingClipMin",
      "ScalingClipMax", "ScalingOffset", "ScalingScale",
      "ScalingProcessingExpression">>

\* The Literal of the type field of each member, which is also its default.
TypeLiteral(c) ==
    CASE c = "ScalingClipMin" -> "clip-min"
      [] c = "ScalingClipMax" -> "clip-max"
      [] c = "ScalingClip" -> "clip"
      [] c = "ScalingMinMax" -> "min-max"
      [] c = "ScalingZScore" -> "z-score"
      [] c = "ScalingOffset" -> "offset"
      [] c = "ScalingScale" -> "scale"
      [] c = "ScalingProcessingExpression" -> "processing"

\* NumberFields with ScalingMinMax declaring no maximum.
NumberFields_MinMaxWithoutMaximum(c) ==
    CASE c = "ScalingClipMin" -> {"minimum"}
      [] c = "ScalingClipMax" -> {"maximum"}
      [] c = "ScalingClip" -> {"minimum", "maximum"}
      [] c = "ScalingMinMax" -> {"minimum"}
      [] c = "ScalingZScore" -> {"mean", "stddev"}
      [] c = "ScalingOffset" -> {"value"}
      [] c = "ScalingScale" -> {"value"}
      [] c = "ScalingProcessingExpression" -> {}

\* The required Number fields of each member.
NumberFields(c) ==
    CASE c = "ScalingClipMin" -> {"minimum"}
      [] c = "ScalingClipMax" -> {"maximum"}
      [] c = "ScalingClip" -> {"minimum", "maximum"}
      [] c = "ScalingMinMax" -> {"minimum", "maximum"}
      [] c = "ScalingZScore" -> {"mean", "stddev"}
      [] c = "ScalingOffset" -> {"value"}
      [] c = "ScalingScale" -> {"value"}
      [] c = "ScalingProcessingExpression" -> {}

\* The fields a member inherits from ProcessingExpression.
ExpressionFields(c) ==
    IF c = "ScalingProcessingExpression" THEN {"format", "expression"} ELSE {}

\* type: Literal[tag] = tag
ParseTypeLiteral(c, v) ==
    IF IsAbsent(v) THEN Ok(JStr(TypeLiteral(c)))
    ELSE IF v = JStr(TypeLiteral(c)) THEN Ok(v)
    ELSE Fail({<<>>})

ParseScalingField(c, k, v) ==
    IF k = "type" THEN ParseTypeLiteral(c, v)
    ELSE IF k \in NumberFields(c) THEN ParseNumber(v)
    ELSE IF k = "format" THEN ParseStr(v)
    ELSE ParseAny(v)

\* One member of the union validating an object document; keys the member
\* does not declare are ignored.
ParseScalingVariant(c, d) ==
    LET names == {"type"} \cup NumberFields(c) \cup ExpressionFields(c)
        fs == [k \in names |-> ParseScalingField(c, k, Get(d, k))]
    IN  IF FieldErrors(fs) # {} THEN Fail(FieldErrors(fs))
        ELSE Ok([k \in names \cup {"cls"} |->
                    IF k = "cls" THEN JStr(c) ELSE fs[k].value])

\* Optional[Union[...]]: null is None; otherwise the first member of the
\* union, in its order, that validates the document.
ParseScalingObject(v) ==
    IF IsNull(v) THEN Ok(PyNone)
    ELSE IF ~IsObj(v) THEN Fail({<<>>})
    ELSE LET n == Len(ScalingVariants)
             valid == {i \in 1..n : ParseScalingVariant(ScalingVariants[i], v).ok}
             first == CHOOSE i \in valid : \A j \in valid : i <= j
         IN  IF valid = {}
             THEN Fail(UNION {Under(ScalingVariants[i],
                                    ParseScalingVariant(ScalingVariants[i], v).errors) :
                              i \in 1..n})
             ELSE ParseScalingVariant(ScalingVariants[first], v)

SerializeScalingObject(x) ==
    IF x = PyNone THEN JNull
    ELSE SerializeModel(x.cls.str, Restrict(x, DOMAIN x \ {"cls"}))

(* ------------------------------ ResizeType ---------------------------- *)

\* ResizeType with one literal misspelt.
ResizeType_Misspelt ==
    {"crop", "pad", "interpolation-nearest", "interpolation-linear",
     "interpolation-cubic", "interpolation-area", "interpolation-lanczos",
     "interpolation-max", "wrap-fill-outliers", "wrap-inverse-map"}

ResizeType ==
    {"crop", "pad", "interpolation-nearest", "interpolation-linear",
     "interpolation-cubic", "interpolation-area", "interpolation-lanczos4",
     "interpolation-max", "wrap-fill-outliers", "wrap-inverse-map"}

\* Optional[Literal[...]], once more Optional in ModelInput.
ParseResizeLiteral(v) ==
    IF IsStr(v) /\ v.str \in ResizeType THEN Ok(v) ELSE Fail({<<>>})

ParseResizeType(v) == ParseOptional(v, ParseResizeLiteral(v))

(* ------------------------------- ModelBand ---------------------------- *)

\* validate_expression raising only for a format without an expression.
validate_expression_FormatOnly(self) ==
    self.format # PyNone /\ self.expression = PyNone

\* The after-validator of ModelBand: TRUE when it raises.
validate_expression(self) ==
    /\ (self.format # PyNone \/ self.expression # PyNone)
    /\ (self.format = PyNone \/ self.expression = PyNone)

ParseModelBand(d) ==
    IF ~IsObj(d) THEN Fail({<<>>})
    ELSE LET fs == [name |-> ParseStr(Get(d, "name")),
                    format |-> ParseOptional(Get(d, "format"), ParseStr(Get(d, "format"))),
                    expression |-> ParseOptional(Get(d, "expression"),
                                                 ParseAny(Get(d, "expression")))]
             self == [cls |-> JStr("ModelBand"),
                      name |-> fs.name.value,
                      format |-> fs.format.value,
                      expression |-> fs.expression.value]
         IN  IF FieldErrors(fs) # {} THEN Fail(FieldErrors(fs))
             ELSE IF validate_expression(self)
                  THEN Fail({<<"validate_expression">>})
                  ELSE Ok(self)

SerializeModelBand(x) ==
    SerializeModel("ModelBand",
                   [name |-> x.name, format |-> x.format, expression |-> x.expression])

(* ------------------------------- ModelInput --------------------------- *)

\* ParseBand with bands declared Sequence[str].
ParseBand_StrOnly(v) ==
    IF IsStr(v) THEN Ok(v) ELSE Fail({<<>>})

\* Union[str, ModelBand]
ParseBand(v) ==
    IF IsStr(v) THEN Ok(v) ELSE ParseModelBand(v)

SerializeBand(e) ==
    IF IsStr(e) THEN e ELSE SerializeModelBand(e)

ParseBands(v) ==
    ParseList(v, [i \in DOMAIN Items(v) |-> ParseBand(Items(v)[i])], 0)
ParseScalingList(v) ==
    ParseList(v, [i \in DOMAIN Items(v) |-> ParseScalingObject(Items(v)[i])], 0)
ParseScaling(v) == ParseOptional(v, ParseScalingList(v))

\* pre_processing_function declared ProcessingExpression = None, without
\* Optional: left out it is None, but null is no ProcessingExpression.
ParsePreProcessingFunction_NotOptional(v) ==
    IF IsAbsent(v) THEN Ok(PyNone) ELSE ParseProcessingExpression(v)

ParsePreProcessingFunction(v) == ParseOptional(v, ParseProcessingExpression(v))

\* The outcome of validating each declared field of a ModelInput document.
ModelInputFields(d) ==
    [name |-> ParseStr(Get(d, "name")),
     bands |-> ParseBands(Get(d, "bands")),
     input |-> ParseInputStructure(Get(d, "input")),
     scaling |-> ParseScaling(Get(d, "scaling")),
     resize_type |-> ParseResizeType(Get(d, "resize_type")),
     pre_processing_function |->
         ParsePreProcessingFunction(Get(d, "pre_processing_function"))]

ModelInputInstance(fs) ==
    [cls |-> JStr("ModelInput"),
     name |-> fs.name.value,
     bands |-> fs.bands.value,
     input |-> fs.input.value,
     scaling |-> fs.scaling.value,
     resize_type |-> fs.resize_type.value,
     pre_processing_function |-> fs.pre_processing_function.value]

\* ParseModelInput with a validator that wants one band per dimension.
ParseModelInput_BandsMatchShape(d) ==
    IF ~IsObj(d) THEN Fail({<<>>})
    ELSE IF FieldErrors(ModelInputFields(d)) # {}
         THEN Fail(FieldErrors(ModelInputFields(d)))
         ELSE IF Len(ModelInputFields(d).bands.value.list)
                    # Len(ModelInputFields(d).input.value.shape.list)
              THEN Fail({<<"validate_bands">>})
              ELSE Ok(ModelInputInstance(ModelInputFields(d)))

\* ModelInput declares no validator of its own: it is valid when its fields are.
ParseModelInput(d) ==
    IF ~IsObj(d) THEN Fail({<<>>})
    ELSE IF FieldErrors(ModelInputFields(d)) # {}
         THEN Fail(FieldErrors(ModelInputFields(d)))
         ELSE Ok(ModelInputInstance(ModelInputFields(d)))

SerializeModelInput(x) ==
    SerializeModel("ModelInput",
        [name |-> x.name,
         bands |-> JArr([i \in DOMAIN x.bands.list |-> SerializeBand(x.bands.list[i])]),
         input |-> SerializeInputStructure(x.input),
         scaling |-> IF x.scaling = PyNone THEN JNull
                     ELSE JArr([i \in DOMAIN x.scaling.list |->
                                   SerializeScalingObject(x.scaling.list[i])]),
         resize_type |-> x.resize_type,
         pre_processing_function |->
             IF x.pre_processing_function = PyNone THEN JNull
             ELSE SerializeProcessingExpression(x.pre_processing_function)])

(* --------------------------- parse / serialize ------------------------ *)

Parse(c, d) ==
    CASE c = "InputStructure" -> ParseInputStructure(d)
      [] c = "ScalingObject" -> ParseScalingObject(d)
      [] c = "ModelBand" -> ParseModelBand(d)
      [] c = "ModelInput" -> ParseModelInput(d)

Serialize(c, x) ==
    CASE c = "InputStructure" -> SerializeInputStructure(x)
      [] c = "ScalingObject" -> SerializeScalingObject(x)
      [] c = "ModelBand" -> SerializeModelBand(x)
      [] c = "ModelInput" -> SerializeModelInput(x)

(* ------------------------------ inputs -------------------------------- *)

\* An object document of the entries of f that are not Absent.
Compact(f) == JObj(Restrict(f, {k \in DOMAIN f : ~IsAbsent(f[k])}))

ShapeDocs(maxDims) ==
    {JArr(q) : q \in SeqsOf({JNum(3), JNum(64)}, 0, maxDims)}
DimOrderDocs(maxDims) ==
    {JArr(q) : q \in SeqsOf({JStr("batch"), JStr("channel")}, 0, maxDims)}
DataTypeDocs == {JStr("float32"), JStr("bogus")}

InputStructureDocs(maxDims) ==
    {JObj([shape |-> s, dim_order |-> o, data_type |-> t]) :
        s \in ShapeDocs(maxDims), o \in DimOrderDocs(maxDims), t \in DataTypeDocs}

NameDocs == {JStr("NDVI"), JNum(7), Absent}
FormatDocs == {Absent, JNull, JStr("rio-calc"), JNum(1)}
ExpressionDocs == {Absent, JNull, JStr("(B08-B04)/(B08+B04)")}

ModelBandDocs(names) ==
    {Compact([name |-> n, format |-> f, expression |-> e]) :
        n \in names, f \in FormatDocs, e \in ExpressionDocs}

\* The type values tried: none, each tag of the schema, and an unknown one.
TypeDocs ==
    {Absent, JStr("bogus"), JStr("clip-min"), JStr("clip-max"), JStr("clip"),
     JStr("min-max"), JStr("z-score"), JStr("offset"), JStr("scale"),
     JStr("processing")}

\* The sets of other keys tried: every subset of the fields of one variant.
ScalingKeySets ==
    SUBSET {"minimum", "maximum"} \cup SUBSET {"mean", "stddev"}
        \cup SUBSET {"value"} \cup SUBSET {"format", "expression"}

ScalingDoc(t, ks, lo) ==
    LET val(k, v) == IF k \in ks THEN v ELSE Absent
    IN  Compact([type |-> t,
                 minimum |-> val("minimum", lo),
                 maximum |-> val("maximum", JNum(1)),
                 mean |-> val("mean", JNum(0)),
                 stddev |-> val("stddev", JNum(1)),
                 value |-> val("value", JNum(3)),
                 format |-> val("format", JStr("rio-calc")),
                 expression |-> val("expression", JStr("x * 2"))])

ScalingObjectDocs(types) ==
    {JNull, JStr("clip")}
        \cup {ScalingDoc(t, ks, lo) :
                t \in types, ks \in ScalingKeySets, lo \in {JNum(0), JNum(2)}}

BandItemDocs ==
    {JStr("B01")} \cup
    {Compact([name |-> JStr("B01"), format |-> Absent, expression |-> Absent]),
     Compact([name |-> JStr("NDVI"), format |-> JStr("rio-calc"),
              expression |-> JStr("(B08-B04)/(B08+B04)")]),
     Compact([name |-> JStr("B03"), format |-> JStr("rio-calc"),
              expression |-> Absent])}

ScalingItemDocs ==
    {JNull,
     ScalingDoc(JStr("clip"), {"minimum", "maximum"}, JNum(2)),
     ScalingDoc(JStr("min-max"), {"minimum"}, JNum(0))}

\* Input structures of every rank, one with mismatched lengths and one with
\* mismatched lengths and an unknown data type.
InputDocs(maxDims) ==
    {JObj([shape |-> JArr([i \in 1..n |-> JNum(64)]),
           dim_order |-> JArr([i \in 1..n |-> JStr("channel")]),
           data_type |-> JStr("float32")]) : n \in 1..maxDims}
    \cup {JObj([shape |-> JArr(<<JNum(1), JNum(3)>>),
                dim_order |-> JArr(<<JStr("batch")>>),
                data_type |-> t]) : t \in DataTypeDocs}

PreProcessingDocs ==
    {Absent,
     Compact([format |-> JStr("python"), expression |-> JStr("pkg.mod:fn")]),
     Compact([format |-> JStr("python"), expression |-> Absent])}

ResizeDocs ==
    {Absent, JNull, JNum(1), JStr("bogus-mode"), JStr("CROP")}
        \cup {JStr(r) : r \in
                {"crop", "pad", "interpolation-nearest", "interpolation-linear",
                 "interpolation-cubic", "interpolation-area",
                 "interpolation-lanczos4", "interpolation-max",
                 "wrap-fill-outliers", "wrap-inverse-map"}}

ModelInputDoc(n, b, i, s, r, f) ==
    Compact([name |-> n, bands |-> b, input |-> i, scaling |-> s,
             resize_type |-> r, pre_processing_function |-> f])

\* Every combination of the lengths of bands, input.shape and scaling, with
\* valid and invalid items.
LengthDocs(maxBands, maxDims, maxScaling) ==
    {ModelInputDoc(JStr("rgb"), JArr(b), i, s, Absent, Absent) :
        b \in SeqsOf(BandItemDocs, 0, maxBands),
        i \in InputDocs(maxDims),
        s \in {Absent} \cup {JArr(q) : q \in SeqsOf(ScalingItemDocs, 0, maxScaling)}}

\* Every combination of a valid or invalid name, bands, input and scaling
\* with every resize type and pre-processing function tried.
FieldDocs ==
    {ModelInputDoc(n, b, i, s, r, f) :
        n \in {JStr("rgb"), JNum(7)},
        b \in {JArr(<<>>),
               JArr(<<JStr("B01"),
                      Compact([name |-> JStr("NDVI"), format |-> JStr("rio-calc"),
                               expression |-> JStr("(B08-B04)/(B08+B04)")])>>),
               JArr(<<Compact([name |-> JStr("B03"), format |-> JStr("rio-calc"),
                               expression |-> Absent])>>)},
        i \in InputDocs(1),
        s \in {Absent,
               JArr(<<JNull, ScalingDoc(JStr("z-score"), {"mean", "stddev"}, JNum(0))>>),
               JArr(<<ScalingDoc(JStr("bogus"), {"value"}, JNum(0))>>)},
        r \in ResizeDocs,
        f \in PreProcessingDocs \cup {JNull}}

ModelInputDocs(maxBands, maxDims, maxScaling) ==
    LengthDocs(maxBands, maxDims, maxScaling) \cup FieldDocs

(* ----------------------------- the machine ---------------------------- *)

Init ==
    /\ op = "none"
    /\ doc = JNull
    /\ res = Fail({})
    /\ prev = NoObject
    /\ phase = "idle"
    /\ gen = 0

\* A constructor call: the document is validated and the caller holds either
\* the instance or the validation error, never both.
Constructed(c, d) ==
    /\ op' = c
    /\ doc' = d
    /\ res' = Parse(c, d)
    /\ prev' = NoObject
    /\ phase' = "parsed"
    /\ gen' = 0

ConstructInputStructure ==
    /\ phase = "idle"
    /\ \E d \in InputStructureDocs(MaxDims) : Constructed("InputStructure", d)

ConstructScalingObject ==
    /\ phase = "idle"
    /\ \E d \in ScalingObjectDocs(TypeDocs) : Constructed("ScalingObject", d)

ConstructModelBand ==
    /\ phase = "idle"
    /\ \E d \in ModelBandDocs(NameDocs) : Constructed("ModelBand", d)

ConstructModelInput ==
    /\ phase = "idle"
    /\ \E d \in ModelInputDocs(MaxBands, MaxDims, MaxScaling) :
           Constructed("ModelInput", d)

\* Serialization of the instance held, to a document.
ModelDump ==
    /\ phase = "parsed"
    /\ res.ok
    /\ gen < MaxRoundTrips
    /\ doc' = Serialize(op, res.value)
    /\ prev' = res.value
    /\ phase' = "serialized"
    /\ UNCHANGED <<op, res, gen>>

\* Construction again, from the document just serialized.
ModelValidate ==
    /\ phase = "serialized"
    /\ res' = Parse(op, doc)
    /\ phase' = "parsed"
    /\ gen' = gen + 1
    /\ UNCHANGED <<op, doc, prev>>

\* The caller drops what it holds and is free to construct again.
Discard ==
    /\ phase # "idle"
    /\ op' = "none"
    /\ doc' = JNull
    /\ res' = Fail({})
    /\ prev' = NoObject
    /\ phase' = "idle"
    /\ gen' = 0

Next ==
    \/ ConstructInputStructure
    \/ ConstructScalingObject
    \/ ConstructModelBand
    \/ ConstructModelInput
    \/ ModelDump
    \/ ModelValidate
    \/ Discard

Spec == Init /\ [][Next]_vars

(* ------------------------------- claims ------------------------------- *)

\* The state right after a constructor call on an input document.
Built(c) == op = c /\ phase = "parsed" /\ gen = 0

\* A key of the document that is present and not null.
IsSet(v) == ~IsAbsent(v) /\ ~IsNull(v)

\* C1: constructing an InputStructure succeeds only when shape and dim_order
\* are both non-empty and of equal length; an input whose two lengths differ
\* fails with a validation error; and every InputStructure that exists, alone
\* or as the input of a ModelInput, before or after a round trip, has
\* len(shape) = len(dim_order).
C1_ShapeMatchesDimOrder ==
    /\ Built("InputStructure") =>
          LET s == doc.obj.shape.arr
              o == doc.obj.dim_order.arr
          IN  /\ res.ok => (Len(s) >= 1 /\ Len(o) >= 1 /\ Len(s) = Len(o))
              /\ Len(s) # Len(o) => (~res.ok /\ res.errors # {} /\ res.value = NoObject)
    /\ (op = "InputStructure" /\ res.ok) =>
          Len(res.value.shape.list) = Len(res.value.dim_order.list)
    /\ (op = "ModelInput" /\ res.ok) =>
          Len(res.value.input.shape.list) = Len(res.value.input.dim_order.list)

\* C1 witness: shape of length 3 with dim_order of length 2 and a valid data
\* type was handed to the constructor, which raised on the length mismatch.
C1_Witness ==
    /\ Built("InputStructure")
    /\ Len(doc.obj.shape.arr) = 3
    /\ Len(doc.obj.dim_order.arr) = 2
    /\ doc.obj.data_type = JStr("float32")
    /\ ~res.ok
    /\ res.errors = {<<"validate_dimensions">>}

\* C2: constructing a ModelBand fails whenever exactly one of format and
\* expression is set (non-null); and for a document whose name is a string and
\* whose format, if set, is a string, it fails if and only if exactly one of
\* them is set: it succeeds with both set and with neither set.
C2_MutuallyDependent ==
    Built("ModelBand") =>
        LET f == Get(doc, "format")
            e == Get(doc, "expression")
            exactlyOne == IsSet(f) # IsSet(e)
            wellTyped == IsStr(Get(doc, "name")) /\ (IsSet(f) => IsStr(f))
        IN  /\ exactlyOne => ~res.ok
            /\ wellTyped => (~res.ok <=> exactlyOne)
            /\ (wellTyped /\ exactlyOne) => res.errors = {<<"validate_expression">>}
            /\ (wellTyped /\ ~exactlyOne) =>
                  /\ res.value.format = (IF IsSet(f) THEN f ELSE PyNone)
                  /\ res.value.expression = (IF IsSet(e) THEN e ELSE PyNone)

\* C2 witness: a ModelBand document with a name and a format but no expression
\* was rejected by validate_expression.
C2_Witness ==
    /\ Built("ModelBand")
    /\ Keys(doc) = {"name", "format"}
    /\ IsStr(doc.obj.name)
    /\ IsStr(doc.obj.format)
    /\ ~res.ok
    /\ res.errors = {<<"validate_expression">>}

\* The tags of the scaling variants and the keys each requires, as the
\* schema's documentation lists them.
ScalingTags ==
    {"clip-min", "clip-max", "clip", "min-max", "z-score", "offset", "scale",
     "processing"}

RequiredKeys(tag) ==
    CASE tag = "clip-min" -> {"minimum"}
      [] tag = "clip-max" -> {"maximum"}
      [] tag \in {"clip", "min-max"} -> {"minimum", "maximum"}
      [] tag = "z-score" -> {"mean", "stddev"}
      [] tag \in {"offset", "scale"} -> {"value"}
      [] tag = "processing" -> {"format", "expression"}

ClassOfTag(tag) ==
    CASE tag = "clip-min" -> "ScalingClipMin"
      [] tag = "clip-max" -> "ScalingClipMax"
      [] tag = "clip" -> "ScalingClip"
      [] tag = "min-max" -> "ScalingMinMax"
      [] tag = "z-score" -> "ScalingZScore"
      [] tag = "offset" -> "ScalingOffset"
      [] tag = "scale" -> "ScalingScale"
      [] tag = "processing" -> "ScalingProcessingExpression"

\* C3: for a ScalingObject document that carries a type, the type decides the
\* variant and the keys required: with a recognized tag it is accepted only if
\* every key that tag's variant requires is present, it is accepted when it
\* holds the type and exactly those keys, and the instance is then of that
\* tag's variant and holds that tag and those fields; with any other type it
\* fails.  Whatever is accepted, the instance's tag and its variant agree.
C3_TypeSelectsVariant ==
    (Built("ScalingObject") /\ IsObj(doc)) =>
        LET t == Get(doc, "type")
            known == IsStr(t) /\ t.str \in ScalingTags
        IN  /\ (known /\ res.ok) => RequiredKeys(t.str) \subseteq Keys(doc)
            /\ (known /\ Keys(doc) = RequiredKeys(t.str) \cup {"type"}) => res.ok
            /\ (known /\ res.ok) =>
                  /\ res.value.type = t
                  /\ res.value.cls = JStr(ClassOfTag(t.str))
                  /\ DOMAIN res.value = RequiredKeys(t.str) \cup {"type", "cls"}
                  /\ \A k \in RequiredKeys(t.str) : res.value[k] = doc.obj[k]
            /\ (~IsAbsent(t) /\ ~known) => (~res.ok /\ res.errors # {})
            /\ res.ok =>
                  /\ res.value.type.str \in ScalingTags
                  /\ res.value.cls = JStr(ClassOfTag(res.value.type.str))

\* C3 witness: {"type": "min-max", "minimum": .., "maximum": ..} was accepted
\* as a ScalingMinMax.
C3_Witness ==
    /\ Built("ScalingObject")
    /\ IsObj(doc)
    /\ Keys(doc) = {"type", "minimum", "maximum"}
    /\ doc.obj.type = JStr("min-max")
    /\ res.ok
    /\ res.value.cls = JStr("ScalingMinMax")

\* C4: round-trip law.  For every valid instance of InputStructure, ModelBand,
\* ScalingObject (each variant, and null) and ModelInput, parsing the document
\* it serializes to succeeds and yields an instance equal to it, on the first
\* round trip and on every later one.
C4_RoundTrip ==
    (phase = "parsed" /\ gen >= 1) =>
        /\ res.ok
        /\ res.value = prev
        /\ res.errors = {}

\* C4 witness: a ModelInput with a null scaling entry beside a clip entry and
\* no resize_type has been serialized and parsed back.
C4_Witness ==
    /\ op = "ModelInput"
    /\ phase = "parsed"
    /\ gen = 1
    /\ res.ok
    /\ prev.resize_type = PyNone
    /\ prev.scaling # PyNone
    /\ Len(prev.scaling.list) = 2
    /\ prev.scaling.list[1] = PyNone
    /\ prev.scaling.list[2] # PyNone
    /\ res.value = prev

\* C5: the serialized document of a ModelInput always holds the keys name,
\* bands and input; holds scaling only when scaling is not None and
\* resize_type only when resize_type is not None; and always holds
\* pre_processing_function, as null when that field is None.
C5_ModelInputKeys ==
    (op = "ModelInput" /\ phase = "serialized") =>
        /\ {"name", "bands", "input", "pre_processing_function"} \subseteq Keys(doc)
        /\ "scaling" \in Keys(doc) <=> prev.scaling # PyNone
        /\ "resize_type" \in Keys(doc) <=> prev.resize_type # PyNone
        /\ prev.pre_processing_function = PyNone <=>
               doc.obj.pre_processing_function = JNull
        /\ Keys(doc) \subseteq {"name", "bands", "input", "scaling", "resize_type",
                                "pre_processing_function"}

\* C5 witness: a ModelInput with no scaling, no resize_type and no
\* pre_processing_function serialized to name, bands, input and a null
\* pre_processing_function.
C5_Witness ==
    /\ op = "ModelInput"
    /\ phase = "serialized"
    /\ prev.scaling = PyNone
    /\ prev.resize_type = PyNone
    /\ prev.pre_processing_function = PyNone
    /\ Keys(doc) = {"name", "bands", "input", "pre_processing_function"}
    /\ doc.obj.pre_processing_function = JNull

\* C6: the document a ModelBand without format and expression serializes to
\* holds neither the key format nor the key expression, the first time and
\* again after that document is parsed and the result serialized.
C6_ModelBandOmitsBoth ==
    (op = "ModelBand" /\ phase = "serialized"
        /\ prev.format = PyNone /\ prev.expression = PyNone) =>
        /\ "format" \notin Keys(doc)
        /\ "expression" \notin Keys(doc)
        /\ Keys(doc) = {"name"}

\* C6 witness: a ModelBand built from explicit nulls for format and expression
\* serialized without them, was parsed back and serialized again.
C6_Witness ==
    /\ op = "ModelBand"
    /\ phase = "serialized"
    /\ gen = 1
    /\ prev.format = PyNone
    /\ prev.expression = PyNone
    /\ Keys(doc) = {"name"}

\* A band item that is a plain string or a valid ModelBand document.
GoodBandItem(v) ==
    \/ IsStr(v)
    \/ /\ IsObj(v)
       /\ "name" \in Keys(v)
       /\ IsStr(v.obj.name)
       /\ Keys(v) \in {{"name"}, {"name", "format", "expression"}}

\* C7: bands accepts every sequence of plain strings and ModelBand records,
\* mixed, repeated or empty: the instance holds as many items, in the same
\* order, a string for a string and a ModelBand of that name for a record.
\* Serializing keeps a string a string and a record an object, and parsing the
\* document back yields the same sequence: the same length and equal items at
\* the same positions.
C7_BandsPreserved ==
    /\ Built("ModelInput") =>
          LET items == doc.obj.bands.arr
          IN  /\ (\A i \in DOMAIN items : GoodBandItem(items[i])) =>
                    \A e \in res.errors : e[1] # "bands"
              /\ res.ok =>
                    /\ Len(res.value.bands.list) = Len(items)
                    /\ \A i \in DOMAIN items :
                          IF IsStr(items[i])
                          THEN res.value.bands.list[i] = items[i]
                          ELSE /\ res.value.bands.list[i].cls = JStr("ModelBand")
                               /\ res.value.bands.list[i].name = items[i].obj.name
    /\ (op = "ModelInput" /\ phase = "serialized") =>
          /\ Len(doc.obj.bands.arr) = Len(prev.bands.list)
          /\ \A i \in DOMAIN prev.bands.list :
                IF IsStr(prev.bands.list[i])
                THEN doc.obj.bands.arr[i] = prev.bands.list[i]
                ELSE /\ IsObj(doc.obj.bands.arr[i])
                     /\ doc.obj.bands.arr[i].obj.name = prev.bands.list[i].name
    /\ (op = "ModelInput" /\ phase = "parsed" /\ gen >= 1) =>
          /\ res.ok
          /\ Len(res.value.bands.list) = Len(prev.bands.list)
          /\ \A i \in DOMAIN prev.bands.list :
                res.value.bands.list[i] = prev.bands.list[i]

\* C7 witness: bands ["B01", {"name": "B01"}], a plain string beside a
\* ModelBand of the same name, came back from a round trip as it was.
C7_Witness ==
    /\ op = "ModelInput"
    /\ phase = "parsed"
    /\ gen = 1
    /\ res.ok
    /\ Len(res.value.bands.list) = 2
    /\ res.value.bands.list[1] = JStr("B01")
    /\ ~IsStr(res.value.bands.list[2])
    /\ res.value.bands.list[2].name = JStr("B01")
    /\ res.value.bands.list[2].format = PyNone

\* The rules a document breaks, read off the document: the rules on single
\* fields, and the rules across fields.
When(cond, e) == IF cond THEN {e} ELSE {}

FieldViolations(c, d) ==
    CASE c = "InputStructure" ->
            When(Len(d.obj.shape.arr) < 1, <<"shape">>)
                \cup When(Len(d.obj.dim_order.arr) < 1, <<"dim_order">>)
                \cup When(d.obj.data_type \notin {JStr("uint8"), JStr("int32"),
                                                  JStr("float32")},
                          <<"data_type">>)
      [] c = "ModelBand" ->
            When(~IsStr(Get(d, "name")), <<"name">>)
                \cup When(IsSet(Get(d, "format")) /\ ~IsStr(Get(d, "format")),
                          <<"format">>)

CrossViolations(c, d) ==
    CASE c = "InputStructure" ->
            When(Len(d.obj.shape.arr) # Len(d.obj.dim_order.arr),
                 <<"validate_dimensions">>)
      [] c = "ModelBand" ->
            When(IsSet(Get(d, "format")) # IsSet(Get(d, "expression")),
                 <<"validate_expression">>)

BuiltChecked == Built("InputStructure") \/ Built("ModelBand")

\* C8 as stated: the one failure raised lists every rule the input breaks,
\* the rules across fields (shape against dim_order, format against
\* expression) together with the rules on single fields.
C8_EveryViolationListed ==
    (BuiltChecked /\ ~res.ok) =>
        (FieldViolations(op, doc) \cup CrossViolations(op, doc)) \subseteq res.errors

\* C8, amended: every failure is raised by the constructor, which then hands
\* out no object, as one failure that lists every field whose own validation
\* failed; the rules across fields run only once every field is valid, so a
\* broken cross-field rule is listed exactly when no single field failed.  In a
\* ModelInput the failures of several fields, those of a nested input among
\* them, are listed together.
C8_FieldErrorsAggregated ==
    /\ BuiltChecked =>
          LET fv == FieldViolations(op, doc)
              cv == CrossViolations(op, doc)
          IN  /\ res.ok <=> (fv \cup cv = {})
              /\ res.ok => res.errors = {}
              /\ ~res.ok =>
                    /\ res.value = NoObject
                    /\ res.errors = (IF fv # {} THEN fv ELSE cv)
    /\ (Built("ModelInput") /\ ~res.ok) =>
          LET i == doc.obj.input
              fv == FieldViolations("InputStructure", i)
              cv == CrossViolations("InputStructure", i)
          IN  /\ res.value = NoObject
              /\ res.errors # {}
              /\ ~IsStr(Get(doc, "name")) => <<"name">> \in res.errors
              /\ {e \in res.errors : e[1] = "input"} =
                    Under("input", IF fv # {} THEN fv ELSE cv)

\* C8 witness: an InputStructure document with an unknown data_type and with
\* shape and dim_order of different lengths was rejected, and the failure lists
\* the data_type alone.
C8_Witness ==
    /\ Built("InputStructure")
    /\ doc.obj.data_type = JStr("bogus")
    /\ Len(doc.obj.shape.arr) = 2
    /\ Len(doc.obj.dim_order.arr) = 1
    /\ ~res.ok
    /\ res.value = NoObject
    /\ res.errors = {<<"data_type">>}

\* The ten resize strategies of the schema's documentation.
ResizeStrategies ==
    {"crop", "pad", "interpolation-nearest", "interpolation-linear",
     "interpolation-cubic", "interpolation-area", "interpolation-lanczos4",
     "interpolation-max", "wrap-fill-outliers", "wrap-inverse-map"}

\* C9: a resize_type is accepted if and only if it is null (or left out) or
\* one of the ten strategy strings; a ModelInput document with any other
\* resize_type fails, and an accepted one is held as given.
C9_ResizeTypeClosed ==
    Built("ModelInput") =>
        LET r == Get(doc, "resize_type")
            good == ~IsSet(r) \/ (IsStr(r) /\ r.str \in ResizeStrategies)
        IN  /\ (<<"resize_type">> \in res.errors) <=> ~good
            /\ ~good => ~res.ok
            /\ res.ok => res.value.resize_type = (IF IsSet(r) THEN r ELSE PyNone)

\* C9 witness: a ModelInput document valid but for resize_type "bogus-mode"
\* was rejected for its resize_type alone.
C9_Witness ==
    /\ Built("ModelInput")
    /\ Get(doc, "resize_type") = JStr("bogus-mode")
    /\ ~res.ok
    /\ res.errors = {<<"resize_type">>}

\* Each part of a ModelInput document is valid taken by itself.
PartsValid(d) ==
    /\ IsStr(Get(d, "name"))
    /\ IsArr(Get(d, "bands"))
    /\ \A i \in DOMAIN Items(Get(d, "bands")) : ParseBand(Items(Get(d, "bands"))[i]).ok
    /\ ParseInputStructure(Get(d, "input")).ok
    /\ \/ ~IsSet(Get(d, "scaling"))
       \/ /\ IsArr(Get(d, "scaling"))
          /\ \A i \in DOMAIN Items(Get(d, "scaling")) :
                ParseScalingObject(Items(Get(d, "scaling"))[i]).ok
    /\ ParseResizeType(Get(d, "resize_type")).ok
    /\ ParsePreProcessingFunction(Get(d, "pre_processing_function")).ok

\* C10: no relation between lengths or bounds is validated.  A ModelInput
\* document whose parts are each valid is accepted whatever the lengths of
\* bands, input.shape and scaling, and holds those lengths as given; a clip or
\* min-max scaling with a minimum and a maximum is accepted whether or not
\* minimum < maximum.
C10_NoLengthRelation ==
    /\ (Built("ModelInput") /\ PartsValid(doc)) =>
          /\ res.ok
          /\ Len(res.value.bands.list) = Len(doc.obj.bands.arr)
          /\ Len(res.value.input.shape.list) = Len(doc.obj.input.obj.shape.arr)
          /\ IsSet(Get(doc, "scaling")) =>
                Len(res.value.scaling.list) = Len(doc.obj.scaling.arr)
    /\ (Built("ScalingObject") /\ IsObj(doc)
          /\ Get(doc, "type") \in {JStr("clip"), JStr("min-max")}
          /\ Keys(doc) = {"type", "minimum", "maximum"}) =>
          /\ res.ok
          /\ res.value.minimum = doc.obj.minimum
          /\ res.value.maximum = doc.obj.maximum

\* C10 witness: a ModelInput with two bands, a shape of three dimensions and
\* one scaling entry, a clip whose minimum exceeds its maximum, was accepted.
C10_Witness ==
    /\ Built("ModelInput")
    /\ res.ok
    /\ Len(res.value.bands.list) = 2
    /\ Len(res.value.input.shape.list) = 3
    /\ res.value.scaling # PyNone
    /\ Len(res.value.scaling.list) = 1
    /\ res.value.scaling.list[1] # PyNone
    /\ res.value.scaling.list[1].type = JStr("clip")
    /\ res.value.scaling.list[1].minimum.num > res.value.scaling.list[1].maximum.num

====
